---------------------------- MODULE Spec2Model ----------------------------
(***************************************************************************)
(* A model of EbirdManager (src/ebird_modu_sightings.py): the observation  *)
(* store (load / save / dedupe / pull_new_entries) and the survey-site     *)
(* validator (find_scouting_area_for_site / verify_trapping_area /         *)
(* correct_trapping_areas).                                                *)
(*                                                                         *)
(* A geojson feature is modelled by the two properties the store logic     *)
(* reads: ebird_subId and individuals.  Python object identity matters     *)
(* (self.features holds references to the feature objects of               *)
(* self.geo_json['features']), so an entry of `features` carries the slot  *)
(* of geo_json it aliases, or 0 when it refers to an object that is no     *)
(* longer in the list.                                                     *)
(***************************************************************************)
EXTENDS Integers, Sequences, FiniteSets, TLC

VARIABLES
    geo_json,       \* self.geo_json['features']: sequence of features
    features,       \* self.features: subId -> [slot, feat]
    file,           \* the file at self.file_name
    species_obs,    \* the dict returned by _pull_species_observations (insertion order)
    cross,          \* cross_count of each species code of the last pull (logged)
    resp,           \* what get_species_observations returned, per species code
    newCount,       \* return value of pull_new_entries
    deduped,        \* return value of dedupe
    survey_sites,   \* self.survey_sites: rows with GlobalID, AREA and geometry
    cache,          \* self._trapping_area_cache
    found,          \* return value of find_scouting_area_for_site
    valid,          \* return value of verify_trapping_area
    arg,            \* global_id passed to find_scouting_area_for_site
    siteInd,        \* row passed to verify_trapping_area / add_global_id (0: none)
    overwrite,      \* overwrite passed to add_global_id
    new_id,         \* the identifier add_global_id generated (logged), or null
    op,             \* the last operation called
    outcome         \* "ok" or the exception the last operation raised

storeVars == <<geo_json, features, file, species_obs, cross, resp, newCount, deduped>>
siteVars  == <<survey_sites, cache, found, valid, arg, siteInd, overwrite, new_id>>
vars      == <<storeVars, siteVars, op, outcome>>

-----------------------------------------------------------------------------
(* Bounds *)
MaxHowMany == 2     \* howMany / individuals of one source observation: 1..MaxHowMany
MaxFileLen == 2     \* features in the persisted file before a store session
MaxPullObs == 3     \* observations of one source response when the pull is run alone
MaxDupLen  == 3     \* features in the persisted file before a dedupe session

SubIds == {"S000000001", "S000000002"}     \* checklist ids
Codes  == <<"motduc", "x00422">>           \* species codes of a pull

\* Observations of one source response inside a store session: as many as
\* there are species codes, so that one checklist can come back under both
\* codes or twice under one.
MaxObs == Len(Codes)

Observation == [subId : SubIds, howMany : 1..MaxHowMany]
FeatureT    == [ebird_subId : SubIds, individuals : 1..MaxHowMany]

SeqsUpTo(S, n) == UNION {[1..k -> S] : k \in 0..n}

RECURSIVE TotalLen(_, _)
TotalLen(r, k) == IF k > Len(r) THEN 0 ELSE Len(r[k]) + TotalLen(r, k + 1)

\* One response per species code; together at most n observations.
ResponsesUpTo(n) ==
    {r \in [1..Len(Codes) -> SeqsUpTo(Observation, n)] : TotalLen(r, 1) <= n}

Responses     == ResponsesUpTo(MaxObs)
PullResponses == ResponsesUpTo(MaxPullObs)

NoFile  == [exists |-> FALSE, fc |-> FALSE, feats |-> <<>>]
BadFile == [exists |-> TRUE,  fc |-> FALSE, feats |-> <<>>]
FilesUpTo(n) == {[exists |-> TRUE, fc |-> TRUE, feats |-> s] : s \in SeqsUpTo(FeatureT, n)}

Files    == FilesUpTo(MaxFileLen)
DupFiles == FilesUpTo(MaxDupLen)

-----------------------------------------------------------------------------
(* Helpers on sequences of features / observations *)

SubIdsOf(feats) == {feats[i].ebird_subId : i \in 1..Len(feats)}

UniqueSubIds(feats) ==
    \A i, j \in 1..Len(feats) : feats[i].ebird_subId = feats[j].ebird_subId => i = j

\* checklists_in_geojson
checklists_in_geojson(feats) == [i \in 1..Len(feats) |-> feats[i].ebird_subId]

\* list.index: the first position holding x
ListIndex(lst, x) ==
    CHOOSE i \in 1..Len(lst) : lst[i] = x /\ \A j \in 1..(i - 1) : lst[j] # x

InList(lst, x) == \E i \in 1..Len(lst) : lst[i] = x

-----------------------------------------------------------------------------
(* _pull_species_observations *)

ObsKeys(observations) == [i \in 1..Len(observations) |-> observations[i].subId]

\* LumpEntry with the `+=` of howMany left out
LumpEntryNoSum(acc, entry) ==
    IF InList(ObsKeys(acc.observations), entry.subId)
    THEN [observations |-> acc.observations, cross_count |-> acc.cross_count + 1]
    ELSE [observations |-> Append(acc.observations, entry),
          cross_count  |-> acc.cross_count]

\* one iteration of `for entry in obs`; acc = [observations, cross_count]
LumpEntry(acc, entry) ==
    IF InList(ObsKeys(acc.observations), entry.subId)
    THEN [observations |->
              [acc.observations EXCEPT
                  ![ListIndex(ObsKeys(acc.observations), entry.subId)].howMany =
                      @ + entry.howMany],
          cross_count |-> acc.cross_count + 1]
    ELSE [observations |-> Append(acc.observations, entry),
          cross_count  |-> acc.cross_count]

RECURSIVE PullEntries(_, _, _)
PullEntries(acc, obs, j) ==
    IF j > Len(obs) THEN acc
    ELSE PullEntries(LumpEntry(acc, obs[j]), obs, j + 1)

\* `for species_code in species_codes`; acc = [observations, cross]
RECURSIVE PullCodes(_, _, _)
PullCodes(acc, r, k) ==
    IF k > Len(r) THEN acc
    ELSE LET one == PullEntries([observations |-> acc.observations, cross_count |-> 0],
                                r[k], 1)
         IN  PullCodes([observations |-> one.observations,
                        cross        |-> Append(acc.cross, one.cross_count)],
                       r, k + 1)

pull_species_observations(r) ==
    PullCodes([observations |-> <<>>, cross |-> <<>>], r, 1)

create_feature_from_observation(obs) ==
    [ebird_subId |-> obs.subId, individuals |-> obs.howMany]

-----------------------------------------------------------------------------
(* The checklist index *)

indiv(feat_index, subid) ==
    IF subid \in DOMAIN feat_index THEN feat_index[subid].feat.individuals ELSE -1

\* Every entry of the index now refers to an object outside the list.
Detach(feat_index) ==
    [k \in DOMAIN feat_index |-> [slot |-> 0, feat |-> feat_index[k].feat]]

\* st = [geo, features, ...]; writes through the reference held by the index
set_individuals(st, subid, new_count) ==
    LET e == st.features[subid] IN
    [st EXCEPT
        !.features = [st.features EXCEPT ![subid].feat.individuals = new_count],
        !.geo = IF e.slot > 0
                THEN [st.geo EXCEPT ![e.slot].individuals = new_count]
                ELSE st.geo]

\* _setup_features from position i on; st = [geo, features, outcome]
SetupStep(st, i) ==
    IF indiv(st.features, st.geo[i].ebird_subId) # -1
    THEN [st EXCEPT !.outcome = "AssertionError"]
    ELSE [st EXCEPT !.features =
            (st.geo[i].ebird_subId :> [slot |-> i, feat |-> st.geo[i]]) @@ st.features]

RECURSIVE setup_features(_, _)
setup_features(st, i) ==
    IF i > Len(st.geo) \/ st.outcome # "ok" THEN st
    ELSE setup_features(SetupStep(st, i), i + 1)

\* load(): the state it leaves and how it ended
load(geo, feat_index, f) ==
    IF ~f.exists
    THEN [geo |-> geo, features |-> feat_index, outcome |-> "FileNotFoundError"]
    ELSE IF ~f.fc
    THEN [geo |-> geo, features |-> feat_index, outcome |-> "IOError"]
    ELSE setup_features(
            [geo |-> f.feats, features |-> Detach(feat_index), outcome |-> "ok"], 1)

\* save(): the file afterwards
save(geo, f) == IF f.exists THEN [exists |-> TRUE, fc |-> TRUE, feats |-> geo] ELSE f

-----------------------------------------------------------------------------
(* dedupe *)

\* DedupeStep with the append outside the else branch
DedupeStepKeepAll(feats, acc, i) ==
    LET subid == feats[i].ebird_subId IN
    IF subid \in DOMAIN acc.dups
    THEN [dups |-> acc.dups, deduped |-> Append(acc.deduped, feats[i])]
    ELSE [dups |-> (subid :> <<i>>) @@ acc.dups,
          deduped |-> Append(acc.deduped, feats[i])]

\* one iteration of the loop; acc = [dups, deduped]
DedupeStep(feats, acc, i) ==
    LET subid == feats[i].ebird_subId IN
    IF subid \in DOMAIN acc.dups
    THEN IF feats[i] = feats[acc.dups[subid][1]]
         THEN [acc EXCEPT !.dups[subid] = Append(@, i)]
         ELSE acc
    ELSE [dups |-> (subid :> <<i>>) @@ acc.dups,
          deduped |-> Append(acc.deduped, feats[i])]

RECURSIVE DedupeFrom(_, _, _)
DedupeFrom(feats, acc, i) ==
    IF i > Len(feats) THEN acc
    ELSE DedupeFrom(feats, DedupeStep(feats, acc, i), i + 1)

dedupe(feats) == DedupeFrom(feats, [dups |-> <<>>, deduped |-> <<>>], 1).deduped

-----------------------------------------------------------------------------
(* pull_new_entries: the reconciliation loop *)

\* ReconcileStep with the drifted feature appended instead of replaced
ReconcileStepAppendOnDrift(st, obs, gjentries) ==
    LET subid       == obs.subId
        subid_count == indiv(st.features, subid)
    IN
    IF ~InList(gjentries, subid)
    THEN [st EXCEPT
            !.newCount = @ + 1,
            !.geo      = Append(st.geo, create_feature_from_observation(obs)),
            !.features = (subid :> [slot |-> Len(st.geo) + 1,
                                    feat |-> create_feature_from_observation(obs)])
                         @@ st.features]
    ELSE IF subid_count # obs.howMany
    THEN [st EXCEPT !.geo = Append(st.geo, create_feature_from_observation(obs))]
    ELSE st

\* one iteration of `for subid, obs in species_obs.items()`
\* st = [geo, features, newCount, outcome]
ReconcileStep(st, obs, gjentries) ==
    LET subid       == obs.subId
        subid_count == indiv(st.features, subid)
    IN
    IF ~InList(gjentries, subid)
    THEN [st EXCEPT
            !.newCount = @ + 1,
            !.geo      = Append(st.geo, create_feature_from_observation(obs)),
            !.features = (subid :> [slot |-> Len(st.geo) + 1,
                                    feat |-> create_feature_from_observation(obs)])
                         @@ st.features]
    ELSE IF subid_count # obs.howMany
    THEN IF subid \notin DOMAIN st.features
         THEN [st EXCEPT !.outcome = "KeyError"]
         ELSE LET s1    == set_individuals(st, subid, subid_count)
                  index == ListIndex(gjentries, subid)
              IN  [s1 EXCEPT
                      !.geo = [s1.geo EXCEPT
                                  ![index] = create_feature_from_observation(obs)],
                      !.features =
                          [k \in DOMAIN s1.features |->
                              IF s1.features[k].slot = index
                              THEN [slot |-> 0, feat |-> s1.features[k].feat]
                              ELSE s1.features[k]]]
    ELSE st

RECURSIVE ReconcileFrom(_, _, _, _)
ReconcileFrom(st, observations, gjentries, j) ==
    IF j > Len(observations) \/ st.outcome # "ok" THEN st
    ELSE ReconcileFrom(ReconcileStep(st, observations[j], gjentries),
                       observations, gjentries, j + 1)

\* the whole of pull_new_entries after the species_codes check
pull_new_entries(geo, feat_index, f, r, do_save) ==
    LET loaded == IF f.exists THEN load(geo, feat_index, f)
                  ELSE [geo |-> geo, features |-> feat_index, outcome |-> "ok"]
        pulled == pull_species_observations(r)
        done   == ReconcileFrom(
                      [geo |-> loaded.geo, features |-> loaded.features,
                       newCount |-> 0, outcome |-> "ok"],
                      pulled.observations, checklists_in_geojson(loaded.geo), 1)
    IN
    IF loaded.outcome # "ok"
    THEN [geo |-> loaded.geo, features |-> loaded.features, file |-> f,
          newCount |-> 0, outcome |-> loaded.outcome,
          species_obs |-> <<>>, cross |-> <<>>]
    ELSE [geo |-> done.geo, features |-> done.features,
          file |-> IF do_save /\ done.outcome = "ok" THEN save(done.geo, f) ELSE f,
          newCount |-> done.newCount, outcome |-> done.outcome,
          species_obs |-> pulled.observations, cross |-> pulled.cross]

-----------------------------------------------------------------------------
(* Survey sites and scouting areas *)

Null == "<null>"        \* Python None / a null cell of the data frame

MaxSites == 2           \* rows of self.survey_sites

ScoutingAreas == <<"north", "south">>      \* the "id" column, in index order
GlobalIDs     == {"{G1}", "{G2}"}
\* what "{" + f"{uuid.uuid4()}".upper() + "}" can yield
Uuids         == {"{U1}", "{U2}", "{U3}", "{U4}"}
AreaLabels    == {"north", "south"}

\* A row: its GlobalID, its AREA and the scouting areas (by index) whose
\* geometry the site's geometry is within.
SiteT == [GlobalID : GlobalIDs \cup {Null},
          AREA     : AreaLabels \cup {Null},
          within   : SUBSET (1..Len(ScoutingAreas))]

\* str(x)
Str(x) == IF x = Null THEN "None" ELSE x

\* bool(x) of a label or None
Truthy(x) == x # Null

Min(S) == CHOOSE m \in S : \A n \in S : m <= n

RowsWith(sites, global_id) ==
    IF global_id = Null THEN {}     \* `GlobalID == None` selects no row
    ELSE {i \in 1..Len(sites) : sites[i].GlobalID = global_id}

\* the loop over self.scouting_areas.index of a single row
FirstArea(within) ==
    IF within = {} THEN Null ELSE ScoutingAreas[Min(within)]

\* find_scouting_area_for_site: [outcome, value]
find_scouting_area_for_site(sites, global_id) ==
    LET rows == RowsWith(sites, global_id) IN
    IF Cardinality(rows) # 1
    THEN \* the IndexError is logged; `if entry.geometry.within(...)` is then
         \* the truth value of a Series
         [outcome |-> "ValueError", value |-> Null]
    ELSE [outcome |-> "ok",
          value   |-> FirstArea(sites[CHOOSE i \in rows : TRUE].within)]

\* verify_trapping_area: [outcome, value, cache]
verify_trapping_area(sites, c, ind) ==
    LET row == sites[ind]
        f   == find_scouting_area_for_site(sites, row.GlobalID)
        found_area == f.value
    IN
    IF f.outcome # "ok" THEN [outcome |-> f.outcome, value |-> FALSE, cache |-> c]
    ELSE IF Truthy(row.AREA)
    THEN IF Str(row.AREA) # Str(found_area)
         THEN [outcome |-> "ok", value |-> FALSE, cache |-> Str(found_area)]
         ELSE [outcome |-> "ok", value |-> TRUE, cache |-> c]
    ELSE IF Truthy(found_area)
         THEN [outcome |-> "ok", value |-> FALSE, cache |-> Str(found_area)]
         ELSE [outcome |-> "ok", value |-> TRUE, cache |-> c]

GlobalIDsOf(sites) == {sites[i].GlobalID : i \in 1..Len(sites)}

\* add_global_id, given the identifier uuid4 yields when it is called:
\* [sites, new_id]
add_global_id(sites, ind, over, uuid) ==
    IF sites[ind].GlobalID # Null
    THEN IF over
         THEN [sites |-> sites, new_id |-> uuid]     \* logged, not stored
         ELSE [sites |-> sites, new_id |-> Null]
    ELSE [sites  |-> [sites EXCEPT ![ind].GlobalID = uuid],
          new_id |-> uuid]

\* correct_trapping_areas from row ind on; st = [sites, cache, outcome]
RECURSIVE correct_trapping_areas(_, _)
correct_trapping_areas(st, ind) ==
    IF ind > Len(st.sites) \/ st.outcome # "ok" THEN st
    ELSE LET v == verify_trapping_area(st.sites, st.cache, ind) IN
         correct_trapping_areas(
            [sites   |-> IF v.outcome = "ok" /\ ~v.value
                         THEN [st.sites EXCEPT ![ind].AREA = v.cache]
                         ELSE st.sites,
             cache   |-> v.cache,
             outcome |-> v.outcome],
            ind + 1)

-----------------------------------------------------------------------------
(* The session: one action per public operation.  The session is single-   *)
(* threaded: a call runs to its end (returning or raising), the caller     *)
(* takes the result, and only then is the next call made.  `op` is "idle"  *)
(* between calls and names the call whose result is pending otherwise.     *)

EmptyResp == [k \in 1..Len(Codes) |-> <<>>]

NoPullResult   == species_obs = <<>> /\ cross = <<>> /\ resp = EmptyResp /\ newCount = 0
NoDedupeResult == deduped = <<>>
NoSiteResult   == found = Null /\ valid = TRUE /\ arg = Null /\ siteInd = 0 /\
                  overwrite = FALSE /\ new_id = Null

\* EbirdManager.__init__
InitStore ==
    /\ geo_json = <<>>
    /\ features = <<>>
    /\ NoPullResult
    /\ NoDedupeResult

Init ==
    /\ InitStore
    /\ file \in {NoFile, BadFile} \cup Files
    /\ survey_sites = <<>>
    /\ cache = Null
    /\ NoSiteResult
    /\ op = "idle"
    /\ outcome = "ok"

\* The caller has the result of the last call; the session is idle again.
Return ==
    /\ op # "idle"
    /\ op' = "idle"
    /\ outcome' = "ok"
    /\ species_obs' = <<>> /\ cross' = <<>> /\ resp' = EmptyResp /\ newCount' = 0
    /\ deduped' = <<>>
    /\ found' = Null /\ valid' = TRUE /\ arg' = Null /\ siteInd' = 0
    /\ overwrite' = FALSE /\ new_id' = Null
    /\ UNCHANGED <<geo_json, features, file, survey_sites, cache>>

Load ==
    /\ op = "idle"
    /\ \E r \in {load(geo_json, features, file)} :
        /\ geo_json' = r.geo
        /\ features' = r.features
        /\ outcome' = r.outcome
    /\ op' = "load"
    /\ UNCHANGED <<file, species_obs, cross, resp, newCount, deduped, siteVars>>

Save ==
    /\ op = "idle"
    /\ file' = save(geo_json, file)
    /\ op' = "save"
    /\ outcome' = "ok"
    /\ UNCHANGED <<geo_json, features, species_obs, cross, resp, newCount, deduped, siteVars>>

Dedupe ==
    /\ op = "idle"
    /\ deduped' = dedupe(geo_json)
    /\ op' = "dedupe"
    /\ outcome' = "ok"
    /\ UNCHANGED <<geo_json, features, file, species_obs, cross, resp, newCount, siteVars>>

\* pull_new_entries with no species codes and no targets
PullNoCodes ==
    /\ op = "idle"
    /\ op' = "pull_new_entries"
    /\ outcome' = "AttributeError"
    /\ UNCHANGED <<storeVars, siteVars>>

PullNewEntries ==
    /\ op = "idle"
    /\ \E r \in Responses, do_save \in (IF file.exists THEN BOOLEAN ELSE {TRUE}) :
        \E p \in {pull_new_entries(geo_json, features, file, r, do_save)} :
            /\ geo_json' = p.geo
            /\ features' = p.features
            /\ file' = p.file
            /\ species_obs' = p.species_obs
            /\ cross' = p.cross
            /\ resp' = r
            /\ newCount' = p.newCount
            /\ outcome' = p.outcome
    /\ op' = "pull_new_entries"
    /\ UNCHANGED <<deduped, siteVars>>

Next == Load \/ Save \/ Dedupe \/ PullNoCodes \/ PullNewEntries \/ Return

Spec == Init /\ [][Next]_vars

-----------------------------------------------------------------------------
(* _pull_species_observations run alone, on larger responses *)

InitPull ==
    /\ InitStore
    /\ file = NoFile
    /\ survey_sites = <<>>
    /\ cache = Null
    /\ NoSiteResult
    /\ op = "idle"
    /\ outcome = "ok"

PullSpeciesObservations ==
    /\ op = "idle"
    /\ \E r \in PullResponses :
        \E p \in {pull_species_observations(r)} :
            /\ species_obs' = p.observations
            /\ cross' = p.cross
            /\ resp' = r
    /\ op' = "pull_species_observations"
    /\ outcome' = "ok"
    /\ UNCHANGED <<geo_json, features, file, newCount, deduped, siteVars>>

NextPull == PullSpeciesObservations \/ Return

SpecPull == InitPull /\ [][NextPull]_vars

-----------------------------------------------------------------------------
(* load and dedupe on files that may hold a checklist several times *)

InitDedupe ==
    /\ InitStore
    /\ file \in DupFiles
    /\ survey_sites = <<>>
    /\ cache = Null
    /\ NoSiteResult
    /\ op = "idle"
    /\ outcome = "ok"

NextDedupe == Load \/ Dedupe \/ Return

SpecDedupe == InitDedupe /\ [][NextDedupe]_vars

-----------------------------------------------------------------------------
(* The survey-site session *)

InitSites ==
    /\ InitStore
    /\ file = NoFile
    /\ survey_sites \in UNION {[1..n -> SiteT] : n \in 1..MaxSites}
    /\ cache = Null
    /\ NoSiteResult
    /\ op = "idle"
    /\ outcome = "ok"

FindScoutingArea ==
    /\ op = "idle"
    /\ \E global_id \in GlobalIDs \cup Uuids \cup {Null} :
        \E f \in {find_scouting_area_for_site(survey_sites, global_id)} :
            /\ found' = f.value
            /\ arg' = global_id
            /\ outcome' = f.outcome
    /\ op' = "find_scouting_area_for_site"
    /\ UNCHANGED <<survey_sites, cache, valid, siteInd, overwrite, new_id, storeVars>>

VerifyTrappingArea ==
    /\ op = "idle"
    /\ \E i \in 1..Len(survey_sites) :
        \E v \in {verify_trapping_area(survey_sites, cache, i)} :
            /\ valid' = v.value
            /\ cache' = v.cache
            /\ siteInd' = i
            /\ outcome' = v.outcome
    /\ op' = "verify_trapping_area"
    /\ UNCHANGED <<survey_sites, found, arg, overwrite, new_id, storeVars>>

CorrectTrappingAreas ==
    /\ op = "idle"
    /\ \E c \in {correct_trapping_areas(
                    [sites |-> survey_sites, cache |-> cache, outcome |-> "ok"], 1)} :
        /\ survey_sites' = c.sites
        /\ cache' = c.cache
        /\ outcome' = c.outcome
    /\ op' = "correct_trapping_areas"
    /\ UNCHANGED <<found, valid, arg, siteInd, overwrite, new_id, storeVars>>

\* uuid4 yields an identifier no site carries
AddGlobalId ==
    /\ op = "idle"
    /\ \E i \in 1..Len(survey_sites), over \in BOOLEAN,
          uuid \in Uuids \ GlobalIDsOf(survey_sites) :
        \E a \in {add_global_id(survey_sites, i, over, uuid)} :
            /\ survey_sites' = a.sites
            /\ new_id' = a.new_id
            /\ siteInd' = i
            /\ overwrite' = over
    /\ op' = "add_global_id"
    /\ outcome' = "ok"
    /\ UNCHANGED <<cache, found, valid, arg, storeVars>>

NextSites ==
    FindScoutingArea \/ VerifyTrappingArea \/ CorrectTrappingAreas \/ AddGlobalId \/ Return

SpecSites == InitSites /\ [][NextSites]_vars

-----------------------------------------------------------------------------
(* Properties of the observation store *)

\* The index and the list agree: one key per checklist of the list, and the
\* indexed feature is the feature the list holds for it.
IndexConsistent ==
    /\ DOMAIN features = SubIdsOf(geo_json)
    /\ \A i \in 1..Len(geo_json) :
          features[geo_json[i].ebird_subId].feat = geo_json[i]

\* The persisted file, when there is one, holds what the list holds: the
\* last call saved.
Saved == file.exists => (file.fc /\ file.feats = geo_json)

\* C1: idempotence of the merge.  After a pull_new_entries that returned
\* normally (and saved, when there is a persisted file), a second
\* pull_new_entries with the same source response also returns normally,
\* returns 0 new entries and leaves the list and the index as the first call
\* left them.
C1_MergeIdempotent ==
    (op = "pull_new_entries" /\ outcome = "ok" /\ Saved) =>
        \A do_save \in BOOLEAN :
            LET again == pull_new_entries(geo_json, features, file, resp, do_save) IN
            /\ again.outcome = "ok"
            /\ again.newCount = 0
            /\ again.geo = geo_json
            /\ again.features = features

\* C2: after every pull_new_entries that returns normally, no two features
\* of the list have the same checklist id.
C2_ChecklistUnique ==
    (op = "pull_new_entries" /\ outcome = "ok") => UniqueSubIds(geo_json)

\* A merge that returned normally, whose response held one checklist under
\* both species codes, next to a feature of another checklist.
C2_Witness ==
    /\ op = "pull_new_entries" /\ outcome = "ok"
    /\ Len(resp[1]) = 1 /\ Len(resp[2]) = 1
    /\ resp[1][1].subId = resp[2][1].subId
    /\ Len(geo_json) = 2
    /\ newCount = 1

\* C3: after a successful load or pull_new_entries the index and the list
\* agree.
C3_IndexConsistent ==
    (op \in {"load", "pull_new_entries"} /\ outcome = "ok") => IndexConsistent

\* C4: count drift, on the in-memory store (no persisted file).  When the
\* list holds exactly one feature for checklist c, with count n, and the
\* merge pulls a lumped observation for c with count m # n, the merge
\* returns normally, the feature at c's position has count m, the list grew
\* only by the new entries, and c is not among the new entries counted.
C4_CountDrift ==
    [][ (op = "idle" /\ op' = "pull_new_entries" /\ ~file.exists) =>
          \A i \in 1..Len(geo_json) : \A j \in 1..Len(species_obs') :
              ( /\ species_obs'[j].subId = geo_json[i].ebird_subId
                /\ species_obs'[j].howMany # geo_json[i].individuals
                /\ \A k \in 1..Len(geo_json) :
                      geo_json[k].ebird_subId = geo_json[i].ebird_subId => k = i )
              => ( /\ outcome' = "ok"
                   /\ Len(geo_json') = Len(geo_json) + newCount'
                   /\ geo_json'[i] = create_feature_from_observation(species_obs'[j])
                   /\ newCount' = Cardinality(
                          {species_obs'[k].subId : k \in 1..Len(species_obs')}
                              \ SubIdsOf(geo_json)) )
      ]_vars

\* C6: load of a well-formed collection with pairwise distinct checklist ids
\* succeeds whatever the in-memory state was, and leaves exactly the loaded
\* collection in the list and in the index.
C6_LoadReplaces ==
    (op = "load" /\ file.exists /\ file.fc /\ UniqueSubIds(file.feats)) =>
        /\ outcome = "ok"
        /\ geo_json = file.feats
        /\ DOMAIN features = SubIdsOf(file.feats)
        /\ \A i \in 1..Len(file.feats) :
              features[file.feats[i].ebird_subId].feat = file.feats[i]

-----------------------------------------------------------------------------
(* Properties of the lumping *)

\* the positions <<k, j>> of a response: observation j of species code k
Positions(r) == UNION {{<<k, j>> : j \in 1..Len(r[k])} : k \in 1..Len(r)}

SubIdsIn(r) == {r[q[1]][q[2]].subId : q \in Positions(r)}

RECURSIVE SumHowMany(_, _)
SumHowMany(r, Q) ==
    IF Q = {} THEN 0
    ELSE LET q == CHOOSE x \in Q : TRUE
         IN  r[q[1]][q[2]].howMany + SumHowMany(r, Q \ {q})

\* the individuals of all observations of checklist id in the response
TotalFor(r, id) == SumHowMany(r, {q \in Positions(r) : r[q[1]][q[2]].subId = id})

Earlier(p, q) == p[1] < q[1] \/ (p[1] = q[1] /\ p[2] < q[2])

\* every checklist of the response is one entry of species_obs, with the
\* sum of its counts
LumpedIsSum ==
    /\ {species_obs[i].subId : i \in 1..Len(species_obs)} = SubIdsIn(resp)
    /\ \A i, j \in 1..Len(species_obs) :
          species_obs[i].subId = species_obs[j].subId => i = j
    /\ \A i \in 1..Len(species_obs) :
          species_obs[i].howMany = TotalFor(resp, species_obs[i].subId)

\* C5, as amended: the observations of one merge that share a checklist id
\* are combined into exactly one observation whose count is the sum of
\* theirs, and the collision counter of a species code is the number of its
\* observations whose checklist id was already seen earlier in the merge,
\* under an earlier species code or earlier in the same code's response.
C5_Lumping ==
    (op = "pull_species_observations") =>
        /\ LumpedIsSum
        /\ Len(cross) = Len(resp)
        /\ \A k \in 1..Len(resp) :
              cross[k] = Cardinality(
                  {j \in 1..Len(resp[k]) :
                      \E p \in Positions(resp) :
                          /\ Earlier(p, <<k, j>>)
                          /\ resp[p[1]][p[2]].subId = resp[k][j].subId})

\* C5, as claimed: the collision counter of a species code is the number of
\* its observations whose checklist id was seen under an earlier species
\* code.
C5_LumpingOriginal ==
    (op = "pull_species_observations") =>
        /\ LumpedIsSum
        /\ Len(cross) = Len(resp)
        /\ \A k \in 1..Len(resp) :
              cross[k] = Cardinality(
                  {j \in 1..Len(resp[k]) :
                      \E p \in Positions(resp) :
                          /\ p[1] < k
                          /\ resp[p[1]][p[2]].subId = resp[k][j].subId})

\* Two observations of one checklist under different species codes, with
\* counts 1 and 2: one lumped observation with count 3, one collision under
\* the second code.
C5_Witness ==
    /\ op = "pull_species_observations"
    /\ Len(resp[1]) = 1 /\ Len(resp[2]) = 1
    /\ resp[1][1].subId = resp[2][1].subId
    /\ resp[1][1].howMany = 1 /\ resp[2][1].howMany = 2
    /\ species_obs = <<[subId |-> resp[1][1].subId, howMany |-> 3]>>
    /\ cross = <<0, 1>>

-----------------------------------------------------------------------------
(* Properties of dedupe *)

SameIdIdentical(feats) ==
    \A i, j \in 1..Len(feats) :
        feats[i].ebird_subId = feats[j].ebird_subId => feats[i] = feats[j]

FirstPositions(feats) ==
    {i \in 1..Len(feats) :
        \A j \in 1..(i - 1) : feats[j].ebird_subId # feats[i].ebird_subId}

\* d holds the first occurrences of feats, in storage order
IsFirstOccurrences(d, feats) ==
    /\ Len(d) = Cardinality(FirstPositions(feats))
    /\ \E f \in [1..Len(d) -> FirstPositions(feats)] :
          /\ \A a, b \in 1..Len(d) : a < b => f[a] < f[b]
          /\ \A a \in 1..Len(d) : d[a] = feats[f[a]]

\* C7: when all features that share a checklist id are identical, dedupe
\* returns the first occurrence of every checklist id, in storage order, and
\* leaves the list and the index as they were.
C7_DedupeFirstOccurrences ==
    [][ (op = "idle" /\ op' = "dedupe") =>
          /\ geo_json' = geo_json
          /\ features' = features
          /\ outcome' = "ok"
          /\ SameIdIdentical(geo_json) => IsFirstOccurrences(deduped', geo_json)
      ]_vars

\* dedupe of [A(id 1), B(id 2), A(id 1)] returned [A, B]
C7_Witness ==
    /\ op = "dedupe"
    /\ Len(geo_json) = 3
    /\ geo_json[3] = geo_json[1]
    /\ geo_json[2].ebird_subId # geo_json[1].ebird_subId
    /\ deduped = <<geo_json[1], geo_json[2]>>

\* C8: when the list holds two features with the same checklist id and
\* different content, dedupe surfaces the inconsistency: it does not return
\* normally with one of the two picked.
C8_DedupeSurfacesInconsistency ==
    ( /\ op = "dedupe"
      /\ \E i, j \in 1..Len(geo_json) :
            /\ geo_json[i].ebird_subId = geo_json[j].ebird_subId
            /\ geo_json[i] # geo_json[j] )
    => outcome # "ok"

-----------------------------------------------------------------------------
(* Properties of the site validator *)

UniqueGlobalIDs(sites) ==
    \A i \in 1..Len(sites) :
        /\ sites[i].GlobalID # Null
        /\ \A j \in 1..Len(sites) : sites[i].GlobalID = sites[j].GlobalID => i = j

\* the scouting area that contains a site lying in at most one, else null
ContainingArea(site) ==
    IF site.within = {} THEN Null
    ELSE ScoutingAreas[CHOOSE a \in site.within : TRUE]

\* C9: with unique global ids and every site in at most one scouting area,
\* after correct_trapping_areas every site's AREA is the id of the scouting
\* area that contains it, and null when none contains it.
C9_AreasCorrected ==
    ( /\ op = "correct_trapping_areas"
      /\ UniqueGlobalIDs(survey_sites)
      /\ \A i \in 1..Len(survey_sites) : Cardinality(survey_sites[i].within) <= 1 )
    => /\ outcome = "ok"
       /\ \A i \in 1..Len(survey_sites) :
             survey_sites[i].AREA = ContainingArea(survey_sites[i])

\* C10: for a site with a unique global id, find_scouting_area_for_site
\* returns the id of the one scouting area that contains it, null when none
\* contains it, and fails with AmbiguityError when several contain it.
C10_FindScoutingArea ==
    ( /\ op = "find_scouting_area_for_site"
      /\ Cardinality(RowsWith(survey_sites, arg)) = 1 )
    => LET site == survey_sites[CHOOSE i \in RowsWith(survey_sites, arg) : TRUE] IN
       /\ Cardinality(site.within) = 1 =>
             (outcome = "ok" /\ found = ContainingArea(site))
       /\ site.within = {} => (outcome = "ok" /\ found = Null)
       /\ Cardinality(site.within) > 1 => outcome = "AmbiguityError"

\* C11: add_global_id.  A site without a GlobalID gets a freshly generated
\* one; a site with a GlobalID keeps it when overwrite is false, and gets a
\* newly generated one, different from the old one, when overwrite is true;
\* in all three cases the GlobalID of every other site is unchanged.
C11_AddGlobalId ==
    [][ (op = "idle" /\ op' = "add_global_id") =>
          LET old == survey_sites[siteInd'].GlobalID
              new == survey_sites'[siteInd'].GlobalID
          IN
          /\ outcome' = "ok"
          /\ Len(survey_sites') = Len(survey_sites)
          /\ \A j \in 1..Len(survey_sites) :
                j # siteInd' => survey_sites'[j].GlobalID = survey_sites[j].GlobalID
          /\ old = Null =>
                (new # Null /\ new \notin GlobalIDsOf(survey_sites))
          /\ (old # Null /\ ~overwrite') => new = old
          /\ (old # Null /\ overwrite') =>
                (new # Null /\ new # old /\ new \notin GlobalIDsOf(survey_sites))
      ]_vars

=============================================================================
